---- MODULE Spec2Model ----
(***************************************************************************)
(* A model of the acknowledgment-based TCP exchange of tcp_server.py and   *)
(* tcp_client.py: the server's acceptor and its per-connection handler     *)
(* threads (which share self.metrics without a lock), the client's main(), *)
(* its bulk and rate-limited send loops and its report, and the TCP        *)
(* connections between them.                                               *)
(*                                                                         *)
(* Time is counted in ticks.  One tick is 1/(TicksPerDelay * rate) of a    *)
(* second, where rate is the messages_per_second of the run, so that the   *)
(* inter-message delay 1.0/rate is exactly TicksPerDelay ticks and one     *)
(* second is TicksPerDelay * rate ticks.  The clock starts at 1, so that   *)
(* the value 0 is free to stand for Python's None.                         *)
(***************************************************************************)
EXTENDS Integers, Sequences, FiniteSets

\* ------------------------------------------------------------ bounds
MaxConns == 2
MaxPeerMsgs == 2
MaxMsgs == 2
MaxRate == 2
MaxDuration == 2
MaxSlots == 4
TicksPerDelay == 2
MaxSlack == 3
MaxSamples == 4
MaxLat == 7
FloatBits == 3

\* ------------------------------------------------- program constants
RecvBuf == 4096
None == 0
SmallMsg == 1024
BigMsg == 5000
HalfMsg == 512

Conns == 1..MaxConns
CConn == 1
MsgSizes == {SmallMsg, BigMsg}

Min(a, b) == IF a < b THEN a ELSE b

VARIABLES
  \* the TCP connections (kernel state on both ends)
  cst,          \* cst[k]: "none", "queued" (connected, in the listen backlog), "accepted"
  c2s,          \* c2s[k]: payload bytes waiting in the server's receive buffer
  s2c,          \* s2c[k]: acknowledgments waiting in the peer's receive buffer
  peerClosed,   \* peerClosed[k]: the peer has closed its socket (FIN sent)
  srvClosed,    \* srvClosed[k]: the server side of the connection is closed
  rst,          \* rst[k]: "no"; "abort": the server side was closed by a reset, which is
                \* on its way to the peer; "pending": the server side was closed in
                \* order, the peer has sent to it since and the reset that answers is
                \* on its way; "peer": the reset has reached the peer's socket;
                \* "server": the server's socket is reset
  p_sent,       \* payloads the plain peers have sent, on all connections
  now,          \* the wall clock, in ticks
  srvKilled,    \* the server process was killed
  slack,        \* ticks the client has spent waiting in recv (line 60): one recv of a
                \* run waits, for up to MaxSlack ticks, the others return at once
  \* TCPServer
  server_socket,  \* "none", "created", "listening", "closed"
  s_metrics,      \* TCPServer.metrics
  s_pc,           \* the main thread: "init", "accept", "display", "done"
  h_pc,           \* h_pc[k]: the handler thread of connection k
  h_data,         \* h_data[k]: len(data) of the handler's last recv, until line 83 has used it
  h_tmp,          \* h_tmp[k]: the value a handler has loaded for a += and not stored yet
  ack_cnt,        \* ack_cnt[k]: how many ACK:<n> were sent on connection k
  ack_last,       \* ack_last[k]: the n of the last ACK:<n> sent on connection k
  n_recv,         \* the non-empty receives of all handlers
  b_recv,         \* the bytes of those receives
  s_printed,      \* summaries the server has printed
  s_saved,        \* the metrics files the server has written, in order
  \* TCPClient and main()
  c_pc,           \* where main() is
  c_par,          \* the arguments of the two runs
  c_metrics,      \* TCPClient.metrics
  c_loc,          \* the local variables of the loops and of send_message
  c_obs,          \* what happened to the client's calls (observations)
  c_printed,      \* summaries the client has printed
  c_saved,        \* the metrics files the client has written, in order
  c_report        \* the latency statistics display_metrics has printed

netVars == <<cst, c2s, s2c, peerClosed, srvClosed, rst>>
envVars == <<p_sent, now, srvKilled, slack>>
srvMain == <<server_socket, s_pc, s_printed, s_saved>>
hVars == <<h_pc, h_data, h_tmp, ack_cnt, ack_last, n_recv, b_recv>>
cliVars == <<c_pc, c_par, c_metrics, c_loc, c_obs, c_printed, c_saved, c_report>>
vars == <<netVars, envVars, srvMain, s_metrics, hVars, cliVars>>

\* ------------------------------------------------------------ Init
\* TCPServer.__init__
ServerMetrics0 ==
  [total_connections |-> 0, total_bytes_received |-> 0, total_messages |-> 0,
   start_time |-> None, end_time |-> None, message_timestamps |-> <<>>]

\* TCPClient.__init__
ClientMetrics0 ==
  [total_messages_sent |-> 0, total_bytes_sent |-> 0, latencies |-> <<>>,
   send_times |-> <<>>, start_time |-> None, end_time |-> None, failed_messages |-> 0]

\* the arguments of send_bulk_messages and send_variable_load
Params ==
  {p \in [num_messages : 0..MaxMsgs, message_size : MsgSizes,
          duration_seconds : 0..MaxDuration, messages_per_second : 1..MaxRate] :
     p.messages_per_second * p.duration_seconds <= MaxSlots}

Locals0 ==
  [i |-> 0, message_count |-> 0, end_time |-> 0, send_start |-> 0,
   sm_start |-> 0, wake |-> 0, run |-> "none"]

\* nothing has happened yet: payloads handed to send(), of these the ones whose
\* recv() has returned or raised, send_message calls that have returned, reads
\* that returned acknowledgment bytes, and whether the connection was already
\* lost when the last payload was sent; and the send_start (line 122) of the
\* last attempt of the rate-limited loop
Obs0 ==
  [issued |-> 0, resolved |-> 0, returned |-> 0, ackReads |-> 0, sendLost |-> FALSE,
   lastStart |-> 0]

\* what display_metrics has printed of the latencies: nothing yet
NoReport ==
  [n |-> 0, avg |-> 0, min |-> 0, max |-> 0, p50 |-> 0, p95 |-> 0, p99 |-> 0,
   i50 |-> 0, i95 |-> 0, i99 |-> 0]

InitCommon ==
  /\ cst = [k \in Conns |-> "none"]
  /\ c2s = [k \in Conns |-> 0]
  /\ s2c = [k \in Conns |-> 0]
  /\ peerClosed = [k \in Conns |-> FALSE]
  /\ srvClosed = [k \in Conns |-> FALSE]
  /\ rst = [k \in Conns |-> "no"]
  /\ p_sent = 0
  /\ now = 1
  /\ srvKilled = FALSE
  /\ slack = 0
  /\ server_socket = "none"
  /\ s_metrics = ServerMetrics0
  /\ s_pc = "init"
  /\ h_pc = [k \in Conns |-> "none"]
  /\ h_data = [k \in Conns |-> 0]
  /\ h_tmp = [k \in Conns |-> 0]
  /\ ack_cnt = [k \in Conns |-> 0]
  /\ ack_last = [k \in Conns |-> 0]
  /\ n_recv = 0
  /\ b_recv = 0
  /\ s_printed = 0
  /\ s_saved = <<>>
  /\ c_pc = "start"
  /\ c_metrics = ClientMetrics0
  /\ c_loc = Locals0
  /\ c_obs = Obs0
  /\ c_printed = 0
  /\ c_saved = <<>>
  /\ c_report = NoReport

\* main(), lines 222 and 228, scaled: the arguments main() passes
MainParams ==
  [num_messages |-> MaxMsgs, message_size |-> SmallMsg,
   duration_seconds |-> 1, messages_per_second |-> 1]

\* the client's runs take any arguments
Init == InitCommon /\ c_par \in Params

\* the server alone, with plain peers: the client never starts
InitServer == InitCommon /\ c_par = MainParams

\* ------------------------------------------------------- TCPServer.start
\* a cleanup() that forgets to close the listening socket
CleanupSocketLeak(sock) == sock

\* cleanup(), lines 107-108: close the listening socket if there is one
CleanupSocket(sock) == IF sock # "none" THEN "closed" ELSE sock

\* line 66 and cleanup(), lines 105-108: end_time, then the listening socket is
\* closed; display_metrics() is the next step
Cleanup(m, sock) ==
  /\ s_metrics' = [m EXCEPT !.end_time = now]
  /\ server_socket' = CleanupSocket(sock)
  /\ s_pc' = "display"

\* lines 31-43: socket, bind, listen, start_time.  bind fails when the port is
\* taken: lines 63-66 and cleanup()
ServerStart ==
  /\ s_pc = "init"
  /\ ~srvKilled
  /\ \E ok \in BOOLEAN :
       IF ok
       THEN /\ server_socket' = "listening"
            /\ s_metrics' = [s_metrics EXCEPT !.start_time = now]
            /\ s_pc' = "accept"
       ELSE Cleanup(s_metrics, "created")
  /\ UNCHANGED <<netVars, envVars, s_printed, s_saved, hVars, cliVars>>

\* lines 48-57: accept one connection and start its handler thread
ServerAccept(k) ==
  /\ s_pc = "accept"
  /\ ~srvKilled
  /\ cst[k] = "queued"
  /\ cst' = [cst EXCEPT ![k] = "accepted"]
  /\ s_metrics' = [s_metrics EXCEPT !.total_connections = @ + 1]
  /\ h_pc' = [h_pc EXCEPT ![k] = "recv"]
  /\ UNCHANGED <<c2s, s2c, peerClosed, srvClosed, rst, envVars, srvMain,
                 h_data, h_tmp, ack_cnt, ack_last, n_recv, b_recv, cliVars>>

\* lines 59-61: KeyboardInterrupt in the accept loop, then line 66 and cleanup()
ServerInterrupt ==
  /\ s_pc = "accept"
  /\ ~srvKilled
  /\ Cleanup(s_metrics, server_socket)
  /\ UNCHANGED <<netVars, envVars, s_printed, s_saved, hVars, cliVars>>

\* lines 63-66: accept() raises something else than KeyboardInterrupt, then cleanup()
ServerAcceptError ==
  /\ s_pc = "accept"
  /\ ~srvKilled
  /\ Cleanup(s_metrics, server_socket)
  /\ UNCHANGED <<netVars, envVars, s_printed, s_saved, hVars, cliVars>>

\* display_metrics(), lines 115-139, and save_metrics(), lines 143-148, which it
\* calls last.  end_time is always set here, so line 128 cannot raise.
ServerDisplay ==
  /\ s_pc = "display"
  /\ ~srvKilled
  /\ s_printed' = s_printed + 1
  /\ s_saved' = Append(s_saved, s_metrics)
  /\ s_pc' = "done"
  /\ UNCHANGED <<netVars, envVars, server_socket, s_metrics, hVars, cliVars>>

\* ------------------------------------------------ TCPServer.handle_client
\* a recv with a buffer smaller than the payloads
RecvLenSmall(pending) == Min(pending, HalfMsg)

\* line 73: recv(4096) returns what is waiting, at most the buffer size
RecvLen(pending) == Min(pending, RecvBuf)

\* line 83: total_bytes_received += len(data), the value stored
AddBytes(loaded, n) == loaded + n

\* line 84: total_messages += 1, the value stored
AddMessage(loaded) == loaded + 1

\* a handler that goes back to recv without acknowledging
AfterUpdateNoAck == "recv"

\* lines 84-94: after the update of the metrics the handler goes on to send the
\* acknowledgment
AfterUpdate == "ack"

\* line 94: the number the acknowledgment carries
AckNumber(m) == m.total_messages

\* a handler whose failure takes every connection of the server down
HandlerCloseAll(k) ==
  /\ h_pc' = [j \in Conns |-> IF h_pc[j] = "none" THEN "none" ELSE "closed"]
  /\ srvClosed' = [j \in Conns |-> srvClosed[j] \/ h_pc[j] # "none"]

\* lines 97-100: leave the loop (break or exception) and close the socket
HandlerClose(k) ==
  /\ h_pc' = [h_pc EXCEPT ![k] = "closed"]
  /\ srvClosed' = [srvClosed EXCEPT ![k] = TRUE]

\* lines 73-80: recv; a reset raises, zero bytes end the loop, anything else is
\* stamped: message_timestamps.append(time.time()), atomic under the interpreter
\* lock (the recv itself touches nothing another handler reads)
HandlerRecv(k) ==
  /\ h_pc[k] = "recv"
  /\ ~srvKilled
  /\ \/ /\ rst[k] = "server"
        /\ HandlerClose(k)
        /\ UNCHANGED <<c2s, h_data, n_recv, b_recv, s_metrics>>
     \/ /\ rst[k] # "server"
        /\ c2s[k] > 0
        /\ h_data' = [h_data EXCEPT ![k] = RecvLen(c2s[k])]
        /\ c2s' = [c2s EXCEPT ![k] = @ - RecvLen(c2s[k])]
        /\ n_recv' = n_recv + 1
        /\ b_recv' = b_recv + RecvLen(c2s[k])
        /\ s_metrics' = [s_metrics EXCEPT !.message_timestamps = Append(@, now)]
        /\ h_pc' = [h_pc EXCEPT ![k] = "loadBytes"]
        /\ UNCHANGED srvClosed
     \/ /\ rst[k] # "server"
        /\ c2s[k] = 0
        /\ peerClosed[k]
        /\ HandlerClose(k)
        /\ UNCHANGED <<c2s, h_data, n_recv, b_recv, s_metrics>>
  /\ UNCHANGED <<cst, s2c, peerClosed, rst, envVars, srvMain,
                 h_tmp, ack_cnt, ack_last, cliVars>>

\* line 83, first half: load total_bytes_received
HandlerLoadBytes(k) ==
  /\ h_pc[k] = "loadBytes"
  /\ ~srvKilled
  /\ h_tmp' = [h_tmp EXCEPT ![k] = s_metrics.total_bytes_received]
  /\ h_pc' = [h_pc EXCEPT ![k] = "storeBytes"]
  /\ UNCHANGED <<netVars, envVars, srvMain, s_metrics, h_data, ack_cnt, ack_last,
                 n_recv, b_recv, cliVars>>

\* line 83, second half: store the sum
HandlerStoreBytes(k) ==
  /\ h_pc[k] = "storeBytes"
  /\ ~srvKilled
  /\ s_metrics' = [s_metrics EXCEPT !.total_bytes_received = AddBytes(h_tmp[k], h_data[k])]
  /\ h_tmp' = [h_tmp EXCEPT ![k] = 0]
  /\ h_data' = [h_data EXCEPT ![k] = 0]
  /\ h_pc' = [h_pc EXCEPT ![k] = "loadMsgs"]
  /\ UNCHANGED <<netVars, envVars, srvMain, ack_cnt, ack_last, n_recv, b_recv, cliVars>>

\* line 84, first half: load total_messages
HandlerLoadMsgs(k) ==
  /\ h_pc[k] = "loadMsgs"
  /\ ~srvKilled
  /\ h_tmp' = [h_tmp EXCEPT ![k] = s_metrics.total_messages]
  /\ h_pc' = [h_pc EXCEPT ![k] = "storeMsgs"]
  /\ UNCHANGED <<netVars, envVars, srvMain, s_metrics, h_data, ack_cnt, ack_last,
                 n_recv, b_recv, cliVars>>

\* line 84, second half: store the sum
HandlerStoreMsgs(k) ==
  /\ h_pc[k] = "storeMsgs"
  /\ ~srvKilled
  /\ s_metrics' = [s_metrics EXCEPT !.total_messages = AddMessage(h_tmp[k])]
  /\ h_tmp' = [h_tmp EXCEPT ![k] = 0]
  /\ h_pc' = [h_pc EXCEPT ![k] = AfterUpdate]
  /\ UNCHANGED <<netVars, envVars, srvMain, h_data, ack_cnt, ack_last, n_recv, b_recv, cliVars>>

\* lines 94-95: format ACK:<total_messages> and send it.  A send on a reset socket
\* raises; a send to a peer that has closed is answered by a reset.
HandlerAck(k) ==
  /\ h_pc[k] = "ack"
  /\ ~srvKilled
  /\ \/ /\ rst[k] = "server"
        /\ HandlerClose(k)
        /\ UNCHANGED <<ack_cnt, ack_last, s2c, rst>>
     \/ /\ rst[k] # "server"
        /\ ack_cnt' = [ack_cnt EXCEPT ![k] = @ + 1]
        /\ ack_last' = [ack_last EXCEPT ![k] = AckNumber(s_metrics)]
        /\ IF peerClosed[k]
           THEN /\ rst' = [rst EXCEPT ![k] = "server"]
                /\ UNCHANGED s2c
           ELSE /\ s2c' = [s2c EXCEPT ![k] = @ + 1]
                /\ UNCHANGED rst
        /\ h_pc' = [h_pc EXCEPT ![k] = "recv"]
        /\ UNCHANGED srvClosed
  /\ UNCHANGED <<cst, c2s, peerClosed, envVars, srvMain, s_metrics,
                 h_data, h_tmp, n_recv, b_recv, cliVars>>

\* lines 71-95 as one step, for a server with a single connection: no other
\* thread writes self.metrics between the loads and the stores of lines 83-84
HandlerServe(k) ==
  /\ h_pc[k] = "recv"
  /\ ~srvKilled
  /\ rst[k] # "server"
  /\ c2s[k] > 0
  /\ \A j \in Conns : j # k => h_pc[j] = "none"
  /\ c2s' = [c2s EXCEPT ![k] = @ - RecvLen(c2s[k])]
  /\ n_recv' = n_recv + 1
  /\ b_recv' = b_recv + RecvLen(c2s[k])
  /\ s_metrics' =
       [s_metrics EXCEPT
          !.message_timestamps = Append(@, now),
          !.total_bytes_received = AddBytes(@, RecvLen(c2s[k])),
          !.total_messages = AddMessage(@)]
  /\ ack_cnt' = [ack_cnt EXCEPT ![k] = @ + 1]
  /\ ack_last' = [ack_last EXCEPT ![k] = AckNumber(s_metrics')]
  /\ IF peerClosed[k]
     THEN /\ rst' = [rst EXCEPT ![k] = "server"]
          /\ UNCHANGED s2c
     ELSE /\ s2c' = [s2c EXCEPT ![k] = @ + 1]
          /\ UNCHANGED rst
  /\ UNCHANGED <<cst, peerClosed, srvClosed, envVars, srvMain, h_pc, h_data, h_tmp, cliVars>>

\* lines 73-76 and 97-100, for the same server: the recv that ends the loop
HandlerEnd(k) ==
  /\ h_pc[k] = "recv"
  /\ ~srvKilled
  /\ rst[k] = "server" \/ (c2s[k] = 0 /\ peerClosed[k])
  /\ HandlerClose(k)
  /\ UNCHANGED <<cst, c2s, s2c, peerClosed, rst, envVars, srvMain, s_metrics,
                 h_data, h_tmp, ack_cnt, ack_last, n_recv, b_recv, cliVars>>

\* ------------------------------------------- the peers of the server
\* a peer connects: the connection waits in the listen backlog of line 38
\* (connections are numbered in the order in which the peers connect)
PeerConnect(k) ==
  /\ cst[k] = "none"
  /\ \A j \in Conns : j < k => cst[j] # "none"
  /\ server_socket = "listening"
  /\ cst' = [cst EXCEPT ![k] = "queued"]
  /\ UNCHANGED <<c2s, s2c, peerClosed, srvClosed, rst, envVars, srvMain, s_metrics,
                 hVars, cliVars>>

\* a peer sends n payload bytes, which reach the server's receive buffer of line 73
\* (what a peer sends before the accept is read after it: it is sent here after it)
PeerSend(k, n) ==
  /\ cst[k] = "accepted"
  /\ ~peerClosed[k]
  /\ ~srvClosed[k]
  /\ p_sent < MaxPeerMsgs
  /\ c2s' = [c2s EXCEPT ![k] = @ + n]
  /\ p_sent' = p_sent + 1
  /\ UNCHANGED <<cst, s2c, peerClosed, srvClosed, rst, now, srvKilled, slack, srvMain,
                 s_metrics, hVars, cliVars>>

\* a peer closes its socket: the server's recv of line 73 returns b'' once it has
\* read what was sent
PeerClose(k) ==
  /\ cst[k] = "accepted"
  /\ ~peerClosed[k]
  /\ peerClosed' = [peerClosed EXCEPT ![k] = TRUE]
  /\ UNCHANGED <<cst, c2s, s2c, srvClosed, rst, envVars, srvMain, s_metrics,
                 hVars, cliVars>>

\* a peer resets the connection: the server's recv or send raises (line 97)
PeerAbort(k) ==
  /\ cst[k] = "accepted"
  /\ ~peerClosed[k]
  /\ ~srvClosed[k]
  /\ peerClosed' = [peerClosed EXCEPT ![k] = TRUE]
  /\ rst' = [rst EXCEPT ![k] = "server"]
  /\ UNCHANGED <<cst, c2s, s2c, srvClosed, envVars, srvMain, s_metrics,
                 hVars, cliVars>>

\* ------------------------------------- the server and its plain peers
ServerStep ==
  \/ ServerStart
  \/ ServerInterrupt
  \/ ServerAcceptError
  \/ ServerDisplay
  \/ \E k \in Conns : ServerAccept(k)

HandlerStep ==
  \E k \in Conns :
    \/ HandlerRecv(k)
    \/ HandlerLoadBytes(k)
    \/ HandlerStoreBytes(k)
    \/ HandlerLoadMsgs(k)
    \/ HandlerStoreMsgs(k)
    \/ HandlerAck(k)

PeerStep ==
  \E k \in Conns :
    \/ PeerConnect(k)
    \/ PeerClose(k)
    \/ PeerAbort(k)
    \/ PeerSend(k, SmallMsg)

NextServer == ServerStep \/ HandlerStep \/ PeerStep

SpecServer == InitServer /\ [][NextServer]_vars

\* ------------------------------------------------------------ TCPClient
\* line 116: delay = 1.0 / messages_per_second, in ticks
Delay == TicksPerDelay

\* one second (lines 118 and 225), in ticks
Second(par) == TicksPerDelay * par.messages_per_second

\* the payload size of the current run: line 222 (the argument) and line 228
MessageSize(par, run) == IF run = "bulk" THEN par.message_size ELSE HalfMsg

\* lines 63-70: a cycle that raised nothing
RecordSuccess(m, send_start, send_end, nbytes) ==
  [m EXCEPT !.total_messages_sent = @ + 1,
            !.total_bytes_sent = @ + nbytes,
            !.latencies = Append(@, send_end - send_start),
            !.send_times = Append(@, send_start)]

\* an except branch that counts the bytes of the payload that failed
RecordFailureBytes(m) ==
  [m EXCEPT !.failed_messages = @ + 1, !.total_bytes_sent = @ + HalfMsg]

\* an except branch that forgets to count the failure
RecordFailureNone(m) == m

\* line 76: a cycle that raised
RecordFailure(m) == [m EXCEPT !.failed_messages = @ + 1]

\* a loop that sleeps half the remaining delay, to catch up
SleepForHalf(elapsed) == IF elapsed < Delay THEN (Delay - elapsed) \div 2 ELSE 0

\* a loop that sleeps twice the remaining delay
SleepForTwice(elapsed) == IF elapsed < Delay THEN 2 * (Delay - elapsed) ELSE 0

\* lines 133-135: how long the rate-limited loop sleeps after a cycle
SleepFor(elapsed) == IF elapsed < Delay THEN Delay - elapsed ELSE 0

\* line 121: the loop condition of send_variable_load
LoopGoesOn(t, end_time) == t < end_time

\* a send_message that sends the next payload without reading the acknowledgment
AfterSendNoWait == "sm_send"

\* line 57 returned: send_message goes on to wait for the acknowledgment (line 60)
AfterSend == "sm_recv"

\* lines 182-183: end_time - start_time is evaluated with end_time still None
DisplayRaises(m) ==
  m.total_messages_sent > 0 /\ m.start_time # None /\ m.end_time = None

\* where main() is inside its try block (lines 221-228)
InTry == {"bulk", "bulk_loop", "sm_send", "sm_recv", "pause", "vl", "vl_loop", "vl_sleep"}

\* send_message returns to its caller at time t: lines 93-98 of the bulk loop
\* (nothing but prints, then the next i), lines 125-135 of the rate-limited loop
Returned(loc, t) ==
  IF loc.run = "bulk"
  THEN /\ c_loc' = [loc EXCEPT !.i = @ + 1, !.sm_start = 0]
       /\ c_pc' = "bulk_loop"
  ELSE /\ c_loc' = [loc EXCEPT !.message_count = @ + 1, !.sm_start = 0, !.send_start = 0,
                               !.wake = t + SleepFor(t - loc.send_start)]
       /\ c_pc' = IF SleepFor(t - loc.send_start) > 0 THEN "vl_sleep" ELSE "vl_loop"

\* a main() that goes on with its runs after a failed connect
AfterConnectFailedGoOn == "bulk"

\* main(), lines 216-218: connect() returned False, sys.exit(1)
AfterConnectFailed == "exit1"

\* connect(), lines 30-43, and main(), lines 216-218
ClientConnect ==
  /\ c_pc = "start"
  /\ IF server_socket = "listening" /\ ~srvKilled
     THEN /\ cst' = [cst EXCEPT ![CConn] = "queued"]
          /\ c_pc' = "bulk"
     ELSE /\ c_pc' = AfterConnectFailed
          /\ UNCHANGED cst
  /\ UNCHANGED <<c2s, s2c, peerClosed, srvClosed, rst, envVars, srvMain, s_metrics, hVars,
                 c_par, c_metrics, c_loc, c_obs, c_printed, c_saved, c_report>>

\* send_bulk_messages, lines 84-87
ClientBulkBegin ==
  /\ c_pc = "bulk"
  /\ c_metrics' = [c_metrics EXCEPT !.start_time = now]
  /\ c_loc' = [c_loc EXCEPT !.i = 0, !.run = "bulk"]
  /\ c_pc' = "bulk_loop"
  /\ UNCHANGED <<netVars, envVars, srvMain, s_metrics, hVars, c_par, c_obs, c_printed, c_saved, c_report>>

\* send_bulk_messages, lines 90-91 and line 100
ClientBulkNext ==
  /\ c_pc = "bulk_loop"
  /\ IF c_loc.i < c_par.num_messages
     THEN /\ c_pc' = "sm_send"
          /\ UNCHANGED c_metrics
     ELSE /\ c_metrics' = [c_metrics EXCEPT !.end_time = now]
          /\ c_pc' = "pause"
  /\ UNCHANGED <<netVars, envVars, srvMain, s_metrics, hVars, c_par, c_loc, c_obs,
                 c_printed, c_saved, c_report>>

\* send_message, lines 49-57 (and 74-77 when send raises): a send on a reset socket
\* raises; what is sent to a server that is gone is answered by a reset
ClientSend ==
  /\ c_pc = "sm_send"
  /\ IF rst[CConn] = "peer"
     THEN /\ c_metrics' = RecordFailure(c_metrics)
          /\ Returned(c_loc, now)
          /\ c_obs' = [c_obs EXCEPT !.returned = @ + 1]
          /\ UNCHANGED <<c2s, rst>>
     ELSE /\ c_loc' = [c_loc EXCEPT !.sm_start = now]
          /\ c_pc' = AfterSend
          /\ c_obs' = [c_obs EXCEPT !.issued = @ + 1, !.sendLost = srvClosed[CConn]]
          /\ IF srvClosed[CConn]
             THEN /\ rst' = [rst EXCEPT ![CConn] = IF @ = "no" THEN "pending" ELSE @]
                  /\ UNCHANGED c2s
             ELSE /\ c2s' = [c2s EXCEPT ![CConn] = @ + MessageSize(c_par, c_loc.run)]
                  /\ UNCHANGED rst
          /\ UNCHANGED c_metrics
  /\ UNCHANGED <<cst, s2c, peerClosed, srvClosed, envVars, srvMain, s_metrics, hVars,
                 c_par, c_printed, c_saved, c_report>>

\* send_message, lines 60-72 (and 74-77 when recv raises), after a wait of d ticks:
\* recv(1024) raises on a reset socket, returns the acknowledgments that wait,
\* returns b'' when the server has closed in order, and blocks otherwise.  Whatever it
\* returns counts as success.
ClientRecv(d) ==
  /\ c_pc = "sm_recv"
  /\ d = 0 \/ slack = 0
  /\ slack' = slack + d
  /\ now' = now + d
  /\ \/ /\ rst[CConn] = "peer"
        /\ c_metrics' = RecordFailure(c_metrics)
        /\ c_obs' = [c_obs EXCEPT !.returned = @ + 1, !.resolved = @ + 1]
        /\ UNCHANGED s2c
     \/ /\ rst[CConn] # "peer"
        /\ s2c[CConn] > 0
        /\ s2c' = [s2c EXCEPT ![CConn] = 0]
        /\ c_metrics' = RecordSuccess(c_metrics, c_loc.sm_start, now',
                                      MessageSize(c_par, c_loc.run))
        /\ c_obs' = [c_obs EXCEPT !.returned = @ + 1, !.resolved = @ + 1,
                                  !.ackReads = @ + 1]
     \/ /\ rst[CConn] \in {"no", "pending"}
        /\ s2c[CConn] = 0
        /\ srvClosed[CConn]
        /\ c_metrics' = RecordSuccess(c_metrics, c_loc.sm_start, now',
                                      MessageSize(c_par, c_loc.run))
        /\ c_obs' = [c_obs EXCEPT !.returned = @ + 1, !.resolved = @ + 1]
        /\ UNCHANGED s2c
  /\ Returned(c_loc, now')
  /\ UNCHANGED <<cst, c2s, peerClosed, srvClosed, rst, p_sent, srvKilled, srvMain,
                 s_metrics, hVars, c_par, c_printed, c_saved, c_report>>

\* main(), line 225: time.sleep(1)
ClientPause ==
  /\ c_pc = "pause"
  /\ now' = now + Second(c_par)
  /\ c_pc' = "vl"
  /\ UNCHANGED <<netVars, p_sent, srvKilled, slack, srvMain, s_metrics, hVars,
                 c_par, c_metrics, c_loc, c_obs, c_printed, c_saved, c_report>>

\* send_variable_load, lines 110-119
ClientVLBegin ==
  /\ c_pc = "vl"
  /\ c_metrics' = [c_metrics EXCEPT !.start_time = now]
  /\ c_loc' = [c_loc EXCEPT !.end_time = now + c_par.duration_seconds * Second(c_par),
                            !.message_count = 0, !.run = "vl"]
  /\ c_pc' = "vl_loop"
  /\ UNCHANGED <<netVars, envVars, srvMain, s_metrics, hVars, c_par, c_obs, c_printed, c_saved, c_report>>

\* send_variable_load, lines 121-124 and line 137
ClientVLNext ==
  /\ c_pc = "vl_loop"
  /\ IF LoopGoesOn(now, c_loc.end_time)
     THEN /\ c_loc' = [c_loc EXCEPT !.send_start = now]
          /\ c_obs' = [c_obs EXCEPT !.lastStart = now]
          /\ c_pc' = "sm_send"
          /\ UNCHANGED c_metrics
     ELSE /\ c_metrics' = [c_metrics EXCEPT !.end_time = now]
          /\ c_pc' = "finally"
          /\ UNCHANGED <<c_loc, c_obs>>
  /\ UNCHANGED <<netVars, envVars, srvMain, s_metrics, hVars, c_par, c_printed, c_saved, c_report>>

\* send_variable_load, line 135: time.sleep(delay - elapsed)
ClientSleep ==
  /\ c_pc = "vl_sleep"
  /\ now' = c_loc.wake
  /\ c_loc' = [c_loc EXCEPT !.wake = 0]
  /\ c_pc' = "vl_loop"
  /\ UNCHANGED <<netVars, p_sent, srvKilled, slack, srvMain, s_metrics, hVars,
                 c_par, c_metrics, c_obs, c_printed, c_saved, c_report>>

\* ---------------------------------- display_metrics: latency statistics
\* Python's float, scaled down: binary floating point with FloatBits significant
\* bits (a double has 53), round to nearest, ties to even.  A value is a whole
\* number of the smallest positive float; below 2^FloatBits every whole number
\* is a float (the subnormals and the first two binades).
RECURSIVE Ulp(_)
Ulp(x) == IF x < 2^FloatBits THEN 1 ELSE 2 * Ulp(x \div 2)

\* the float nearest to num/den (num >= 0, den > 0), as true division gives it
FRound(num, den) ==
  LET u == Ulp(num \div den)
      q == num \div (den * u)
      r == num % (den * u)
  IN  IF 2 * r < den * u \/ (2 * r = den * u /\ q % 2 = 0)
      THEN q * u ELSE (q + 1) * u

\* float addition: the exact sum, rounded
FAdd(a, b) == IF a + b < 0 THEN 0 - FRound(0 - (a + b), 1) ELSE FRound(a + b, 1)

\* line 162: l * 1000
Millis(l) == FRound(l * 1000, 1)

\* sum() of floats before CPython 3.12: left to right, rounded at each step
RECURSIVE SumPlain(_, _)
SumPlain(s, acc) ==
  IF s = <<>> THEN acc ELSE SumPlain(Tail(s), FAdd(acc, Head(s)))

\* sum() of floats from CPython 3.12 on: the same with a running compensation
\* c, added at the end
RECURSIVE SumCompensated(_, _, _)
SumCompensated(s, acc, c) ==
  IF s = <<>> THEN FAdd(acc, c)
  ELSE LET x == Head(s)
           t == FAdd(acc, x)
           lost == IF acc >= x THEN FAdd(FAdd(acc, 0 - t), x)
                   ELSE FAdd(FAdd(x, 0 - t), acc)
       IN  SumCompensated(Tail(s), t, FAdd(c, lost))

\* line 163: sum(latencies_ms) / len(latencies_ms)
Average(s, compensated) ==
  FRound(IF compensated THEN SumCompensated(s, 0, 0) ELSE SumPlain(s, 0), Len(s))

\* lines 164-165: min() and max()
MinOf(s) == CHOOSE x \in {s[i] : i \in 1..Len(s)} : \A i \in 1..Len(s) : x <= s[i]
MaxOf(s) == CHOOSE x \in {s[i] : i \in 1..Len(s)} : \A i \in 1..Len(s) : x >= s[i]

\* line 173: sorted(), ascending
RECURSIVE Insert(_, _)
Insert(x, s) ==
  IF s = <<>> THEN <<x>>
  ELSE IF x <= Head(s) THEN <<x>> \o s ELSE <<Head(s)>> \o Insert(x, Tail(s))

RECURSIVE Sorted(_)
Sorted(s) == IF s = <<>> THEN <<>> ELSE Insert(Head(s), Sorted(Tail(s)))

\* lines 174-176: the 0-based indices len // 2, int(len * 0.95), int(len * 0.99);
\* for every length up to two million the two float products truncate to
\* len * 95 // 100 and len * 99 // 100
IndexP50(n) == n \div 2
IndexP95(n) == (n * 95) \div 100
IndexP99(n) == (n * 99) \div 100

\* lines 161-180: the latency statistics (n is the number of samples, i50, i95
\* and i99 the 0-based indices used)
LatencyReport(latencies, compensated) ==
  IF Len(latencies) = 0 THEN NoReport
  ELSE LET ms == [i \in 1..Len(latencies) |-> Millis(latencies[i])]
           sorted == Sorted(ms)
           n == Len(ms)
       IN  [n |-> n, avg |-> Average(ms, compensated),
            min |-> MinOf(ms), max |-> MaxOf(ms),
            p50 |-> sorted[IndexP50(n) + 1],
            p95 |-> sorted[IndexP95(n) + 1],
            p99 |-> sorted[IndexP99(n) + 1],
            i50 |-> IndexP50(n), i95 |-> IndexP95(n), i99 |-> IndexP99(n)]

\* main(), lines 232-235: disconnect() (lines 143-145), then display_metrics()
\* (lines 149-193), which ends by calling save_metrics() (lines 196, 200-205),
\* unless line 183 raises TypeError: that ends the process with the summary cut
\* short after the latency statistics and nothing saved
Finally ==
  /\ peerClosed' = [peerClosed EXCEPT ![CConn] = TRUE]
  /\ \E compensated \in BOOLEAN :
       c_report' = LatencyReport(c_metrics.latencies, compensated)
  /\ IF DisplayRaises(c_metrics)
     THEN /\ c_pc' = "crashed"
          /\ UNCHANGED <<c_printed, c_saved>>
     ELSE /\ c_pc' = "exit"
          /\ c_printed' = c_printed + 1
          /\ c_saved' = Append(c_saved, c_metrics)
  /\ UNCHANGED <<cst, c2s, s2c, srvClosed, rst, envVars, srvMain, s_metrics, hVars,
                 c_par, c_metrics, c_loc, c_obs>>

\* main(), lines 230-235: KeyboardInterrupt anywhere in the try block, then finally
ClientInterrupt ==
  /\ c_pc \in InTry
  /\ Finally

\* main(), lines 232-235, when the try block has ended by itself
ClientFinish ==
  /\ c_pc = "finally"
  /\ Finally

\* --------------------------------------------- the client's environment
\* the server process is killed while the client runs: its sockets close; a
\* connection with unread payload, or one not accepted yet, is reset
ServerKill ==
  /\ ~srvKilled
  /\ c_pc \in InTry
  /\ srvKilled' = TRUE
  /\ srvClosed' = [k \in Conns |-> TRUE]
  /\ rst' = [k \in Conns |->
               IF (c2s[k] > 0 \/ cst[k] = "queued") /\ rst[k] = "no"
               THEN "abort" ELSE rst[k]]
  /\ server_socket' = "closed"
  /\ UNCHANGED <<cst, c2s, s2c, peerClosed, p_sent, now, slack, s_pc, s_printed, s_saved,
                 s_metrics, hVars, cliVars>>

\* the reset reaches the socket of the running client: its next send or recv raises
RstArrive ==
  /\ rst[CConn] \in {"pending", "abort"}
  /\ c_pc \in InTry
  /\ rst' = [rst EXCEPT ![CConn] = "peer"]
  /\ UNCHANGED <<cst, c2s, s2c, peerClosed, srvClosed, envVars, srvMain, s_metrics,
                 hVars, cliVars>>

ClientStep(maxWait) ==
  \/ ClientConnect
  \/ ClientBulkBegin
  \/ ClientBulkNext
  \/ ClientSend
  \/ \E d \in 0..maxWait : ClientRecv(d)
  \/ ClientPause
  \/ ClientVLBegin
  \/ ClientVLNext
  \/ ClientSleep
  \/ ClientInterrupt
  \/ ClientFinish

\* the client, the server it talks to, and what can go wrong between them
Next ==
  \/ ClientStep(MaxSlack)
  \/ ServerStart
  \/ ServerAccept(CConn)
  \/ HandlerServe(CConn)
  \/ HandlerEnd(CConn)
  \/ ServerKill
  \/ RstArrive

Spec == Init /\ [][Next]_vars

\* the same with cycles that take no time: the clock moves in the sleeps only
NextIdeal ==
  \/ ClientStep(0)
  \/ ServerStart
  \/ ServerAccept(CConn)
  \/ HandlerServe(CConn)
  \/ HandlerEnd(CConn)
  \/ ServerKill
  \/ RstArrive

SpecIdeal == Init /\ [][NextIdeal]_vars

\* ------------------------------------ display_metrics on given samples
\* the latency samples display_metrics is given: floats up to MaxLat
Samples == {x \in 0..MaxLat : FRound(x, 1) = x}

\* TCPClient.metrics after runs that recorded the latencies ls and no failure
MetricsWith(ls) ==
  [total_messages_sent |-> Len(ls), total_bytes_sent |-> Len(ls) * HalfMsg,
   latencies |-> ls, send_times |-> [i \in 1..Len(ls) |-> 1],
   start_time |-> 1, end_time |-> 1, failed_messages |-> 0]

\* a client that has ended its runs with up to MaxSamples samples, connected to a
\* server that has served it: main() is about to enter its finally block
InitStats ==
  /\ cst = [k \in Conns |-> IF k = CConn THEN "accepted" ELSE "none"]
  /\ c2s = [k \in Conns |-> 0]
  /\ s2c = [k \in Conns |-> 0]
  /\ peerClosed = [k \in Conns |-> FALSE]
  /\ srvClosed = [k \in Conns |-> FALSE]
  /\ rst = [k \in Conns |-> "no"]
  /\ p_sent = 0
  /\ now = 1
  /\ srvKilled = FALSE
  /\ slack = 0
  /\ server_socket = "listening"
  /\ s_pc = "accept"
  /\ h_pc = [k \in Conns |-> IF k = CConn THEN "recv" ELSE "none"]
  /\ h_data = [k \in Conns |-> 0]
  /\ h_tmp = [k \in Conns |-> 0]
  /\ s_printed = 0
  /\ s_saved = <<>>
  /\ c_pc = "finally"
  /\ c_par = MainParams
  /\ c_loc = [Locals0 EXCEPT !.run = "vl"]
  /\ c_printed = 0
  /\ c_saved = <<>>
  /\ c_report = NoReport
  /\ \E n \in 0..MaxSamples : \E ls \in [1..n -> Samples] :
       /\ c_metrics = MetricsWith(ls)
       /\ c_obs = [Obs0 EXCEPT !.issued = n, !.resolved = n, !.returned = n,
                                !.ackReads = n]
       /\ s_metrics = [ServerMetrics0 EXCEPT
                         !.total_connections = 1, !.start_time = 1,
                         !.total_messages = n, !.total_bytes_received = n * HalfMsg,
                         !.message_timestamps = [i \in 1..n |-> 1]]
       /\ ack_cnt = [k \in Conns |-> IF k = CConn THEN n ELSE 0]
       /\ ack_last = [k \in Conns |-> IF k = CConn THEN n ELSE 0]
       /\ n_recv = n
       /\ b_recv = n * HalfMsg

NextStats == ClientFinish

SpecStats == InitStats /\ [][NextStats]_vars

\* =================================================================== claims
Abs(x) == IF x < 0 THEN -x ELSE x

HandlersDone == \A k \in Conns : h_pc[k] \in {"none", "closed"}

\* C1: on every connection the n-th acknowledgment sent carries the number n
\* (1, 2, 3, ... in order), whatever the other connections do.  Stated on the last
\* acknowledgment of each connection: it carries the count of those sent on it.
AckNumbersPerConnection ==
  \A k \in Conns : ack_cnt[k] > 0 => ack_last[k] = ack_cnt[k]

\* C2: once all handlers have finished, total_messages is the number of non-empty
\* receives, total_bytes_received the sum of their lengths, and message_timestamps
\* has one entry for each.
NoLostUpdate ==
  HandlersDone =>
    /\ s_metrics.total_messages = n_recv
    /\ s_metrics.total_bytes_received = b_recv
    /\ Len(s_metrics.message_timestamps) = n_recv

LatenciesAreAcked == Len(c_metrics.latencies) = c_obs.ackReads

\* C5: an attempt whose payload is sent (or whose send raises) after the connection
\* was lost adds one to failed_messages and leaves total_messages_sent alone.
AttemptsAfterLossFail ==
  [][LET lost == IF c_pc = "sm_send" THEN srvClosed[CConn] ELSE c_obs.sendLost
     IN  (c_obs'.returned = c_obs.returned + 1 /\ lost) =>
           /\ c_metrics'.failed_messages = c_metrics.failed_messages + 1
           /\ c_metrics'.total_messages_sent = c_metrics.total_messages_sent]_vars

\* C6: a client that got past connect and has ended has printed its summary and
\* saved its metrics, each exactly once.
ClientAlwaysReports ==
  c_pc \in {"exit", "crashed"} => (c_printed = 1 /\ Len(c_saved) = 1)

\* C7: once the server has left its accept loop no connection is accepted and no
\* handler started; the report is made with the listening socket closed (handlers
\* still running are left to themselves), it is made and saved once, and a
\* server that is done has made it.
ServerShutdownOrder ==
  [][/\ s_pc \notin {"init", "accept"} =>
          /\ s_metrics'.total_connections = s_metrics.total_connections
          /\ \A k \in Conns : (cst'[k] = "accepted") = (cst[k] = "accepted")
          /\ \A k \in Conns : (h_pc'[k] = "none") = (h_pc[k] = "none")
     /\ s_printed' # s_printed =>
          /\ server_socket' # "listening"
          /\ s_pc \notin {"init", "accept"}
     /\ s_printed' <= 1 /\ Len(s_saved') = s_printed'
     /\ s_pc' = "done" => s_printed' = 1]_vars

\* the server has reported after an interrupt while a handler is still at work
ServerReportedWithHandlers ==
  /\ s_pc = "done"
  /\ s_printed = 1
  /\ server_socket = "closed"
  /\ s_metrics.total_connections = MaxConns
  /\ \E k \in Conns : h_pc[k] \notin {"none", "closed"}

\* the totals of C8, after the bulk run and with the server alive
BulkTotals ==
  /\ s_metrics.total_messages = c_par.num_messages
  /\ s_metrics.total_bytes_received = c_par.num_messages * c_par.message_size
  /\ c_metrics.total_messages_sent = c_par.num_messages
  /\ c_metrics.total_bytes_sent = c_par.num_messages * c_par.message_size
  /\ c_metrics.failed_messages = 0

\* C8, as stated: after a bulk run of N messages of S bytes with no fault the
\* server has counted N messages and N*S bytes, the client N sent, N*S bytes and
\* no failure, for any S.
BulkTotalsAgree == (c_pc = "pause" /\ ~srvKilled) => BulkTotals

\* C8, amended: the same for payloads of at most the server's receive buffer
\* (4096 bytes), each returned whole by one recv.
BulkTotalsAgreeInBuffer ==
  (c_pc = "pause" /\ ~srvKilled /\ c_par.message_size <= RecvBuf) => BulkTotals

\* a bulk run of MaxMsgs payloads that fit the buffer has completed
BulkRunCompleted ==
  /\ c_pc = "pause"
  /\ ~srvKilled
  /\ c_par.message_size <= RecvBuf
  /\ c_par.num_messages = MaxMsgs
  /\ s_metrics.total_messages = MaxMsgs

\* C9: at most one payload is outstanding (sent, its recv neither returned nor
\* raised), and none is when send_message is about to send.
StrictlySequential ==
  /\ c_obs.issued - c_obs.resolved \in {0, 1}
  /\ c_pc = "sm_send" => c_obs.issued = c_obs.resolved
  /\ c_obs.issued - c_obs.resolved = 1 => c_pc \in {"sm_recv", "exit", "crashed"}

\* the rate-limited loop waits for the acknowledgment of a later payload
SecondPayloadOutstanding ==
  /\ c_pc = "sm_recv"
  /\ c_loc.run = "vl"
  /\ c_loc.message_count >= 1
  /\ c_obs.issued = c_obs.resolved + 1

\* C10: with cycles that take no time, the send attempts of a rate-limited run
\* that has ended number messages_per_second * duration_seconds, give or take one.
RateWithinOne ==
  (c_pc = "finally" /\ c_loc.run = "vl") =>
    Abs(c_loc.message_count - c_par.messages_per_second * c_par.duration_seconds) <= 1

\* a rate-limited run of MaxSlots attempts has ended
RateRunEnded ==
  /\ c_pc = "finally"
  /\ c_loc.run = "vl"
  /\ c_par.messages_per_second * c_par.duration_seconds = MaxSlots
  /\ c_loc.message_count = MaxSlots

\* C11: for a non-empty sequence of samples the statistics display_metrics prints
\* satisfy p50 <= p95 <= p99 and min <= avg <= max, and the three percentile
\* indices are valid (less than the number of samples).
StatsOrdered ==
  c_report.n > 0 =>
    /\ c_report.p50 <= c_report.p95 /\ c_report.p95 <= c_report.p99
    /\ c_report.min <= c_report.avg /\ c_report.avg <= c_report.max
    /\ c_report.i50 < c_report.n /\ c_report.i95 < c_report.n /\ c_report.i99 < c_report.n

\* C12: when a handler ends on an I/O error (its recv or send raises on a reset
\* connection) only its own connection is closed: every other session keeps its
\* state, its connection and what waits on it, and the acceptor stays where it
\* is; a connection is only ever closed by its own handler.
HandlerErrorIsolated ==
  [][\A k \in Conns :
       (h_pc[k] # "closed" /\ h_pc'[k] = "closed" /\ rst[k] = "server") =>
         /\ srvClosed'[k]
         /\ \A j \in Conns \ {k} :
              /\ h_pc'[j] = h_pc[j]
              /\ srvClosed'[j] = srvClosed[j]
              /\ cst'[j] = cst[j] /\ rst'[j] = rst[j]
              /\ c2s'[j] = c2s[j] /\ s2c'[j] = s2c[j]
              /\ srvClosed'[j] => h_pc'[j] = "closed"
         /\ s_pc' = s_pc
         /\ server_socket' = server_socket]_vars

\* one handler has ended on an I/O error; another session has been acknowledged
\* and is open, and the acceptor is in its loop
ErrorClosedOtherServed ==
  /\ s_pc = "accept"
  /\ server_socket = "listening"
  /\ \E k \in Conns, j \in Conns :
       /\ k # j
       /\ h_pc[k] = "closed" /\ rst[k] = "server"
       /\ h_pc[j] = "recv" /\ ~srvClosed[j] /\ ack_cnt[j] > 0

\* the next position of a handler, from each position
SessionNext ==
  [none |-> {"recv"}, recv |-> {"loadBytes", "closed"}, loadBytes |-> {"storeBytes"},
   storeBytes |-> {"loadMsgs"}, loadMsgs |-> {"storeMsgs"}, storeMsgs |-> {"ack"},
   ack |-> {"recv", "closed"}, closed |-> {}]

\* C13: a session goes from waiting in recv (CONNECTED), on a non-empty receive,
\* through one update of the metrics (one timestamp, one store to each counter)
\* to one acknowledgment and back to recv; a zero-byte receive or an I/O error
\* closes it, and a closed session is closed for good: its socket is closed, it
\* sends no acknowledgment and changes no metric.
SessionStateMachine ==
  [][/\ \A k \in Conns :
          /\ h_pc'[k] # h_pc[k] => h_pc'[k] \in SessionNext[h_pc[k]]
          /\ c2s'[k] < c2s[k] => (h_pc[k] = "recv" /\ h_pc'[k] = "loadBytes")
          /\ (h_pc[k] = "recv" /\ h_pc'[k] = "loadBytes") => c2s'[k] < c2s[k]
          /\ ack_cnt'[k] # ack_cnt[k] =>
               (h_pc[k] = "ack" /\ h_pc'[k] = "recv" /\ ack_cnt'[k] = ack_cnt[k] + 1)
          /\ (h_pc[k] = "ack" /\ h_pc'[k] = "recv") => ack_cnt'[k] = ack_cnt[k] + 1
          /\ h_pc'[k] = "closed" => srvClosed'[k]
          /\ h_pc[k] = "closed" => (s2c'[k] = s2c[k] /\ srvClosed'[k])
     /\ s_metrics'.message_timestamps # s_metrics.message_timestamps =>
          /\ Len(s_metrics'.message_timestamps) = Len(s_metrics.message_timestamps) + 1
          /\ \E k \in Conns : h_pc[k] = "recv" /\ h_pc'[k] = "loadBytes"
     /\ s_metrics'.total_bytes_received # s_metrics.total_bytes_received =>
          \E k \in Conns : h_pc[k] = "storeBytes" /\ h_pc'[k] = "loadMsgs"
     /\ s_metrics'.total_messages # s_metrics.total_messages =>
          \E k \in Conns : h_pc[k] = "storeMsgs" /\ h_pc'[k] = "ack"]_vars

\* a session has acknowledged MaxPeerMsgs payloads and was then closed by a
\* zero-byte receive
SessionServedAndClosed ==
  \E k \in Conns :
    /\ h_pc[k] = "closed"
    /\ ack_cnt[k] = MaxPeerMsgs
    /\ peerClosed[k] /\ rst[k] = "no"
    /\ srvClosed[k]

\* C14: in the rate-limited loop the sleep after a cycle is max(0, delay - cycle
\* duration), and an attempt never starts less than delay after the one before
\* it, also when that one took longer than delay.
NoCatchUp ==
  [][/\ (c_loc.run = "vl" /\ c_pc \in {"sm_send", "sm_recv"} /\ c_pc' = "vl_sleep") =>
          /\ now' - c_obs.lastStart < Delay
          /\ c_loc'.wake = c_obs.lastStart + Delay
     /\ (c_loc.run = "vl" /\ c_pc \in {"sm_send", "sm_recv"} /\ c_pc' = "vl_loop") =>
          now' - c_obs.lastStart >= Delay
     /\ (c_pc = "vl_sleep" /\ c_pc' = "vl_loop") => now' = c_loc.wake
     /\ (c_pc = "vl_loop" /\ c_pc' = "sm_send" /\ c_obs.lastStart # 0) =>
          /\ c_obs'.lastStart = now
          /\ c_obs'.lastStart - c_obs.lastStart >= Delay]_vars

\* an attempt has started right after a cycle that took longer than delay
StartedAfterLongCycle ==
  /\ c_pc = "sm_send"
  /\ c_loc.run = "vl"
  /\ c_loc.message_count >= 1
  /\ slack > Delay
  /\ c_obs.lastStart = now

\* C15: the snapshot the server has saved is consistent and final: it has one
\* timestamp for each message counted, its byte total is the total of those
\* messages (the peers' payloads are SmallMsg bytes, each received whole), every
\* acknowledgment sent is counted in it, and the metrics are not changed after it.
SnapshotConsistent ==
  Len(s_saved) > 0 =>
    LET snap == s_saved[1]
    IN  /\ Len(snap.message_timestamps) = snap.total_messages
        /\ snap.total_bytes_received = snap.total_messages * SmallMsg
        /\ \A k \in Conns : ack_cnt[k] <= snap.total_messages
        /\ s_metrics.total_messages = snap.total_messages
        /\ s_metrics.total_bytes_received = snap.total_bytes_received
        /\ s_metrics.message_timestamps = snap.message_timestamps

\* C16: a server whose bind or listen failed (it left start() without a
\* start_time) has accepted no connection and started no handler, and never
\* does; a client whose connect failed has exited: it has sent nothing, called
\* send_message never, started no run, and never does.
StartFailureFatal ==
  [][/\ (s_pc' # "init" /\ s_metrics'.start_time = None) =>
          /\ s_pc' \in {"display", "done"}
          /\ server_socket' # "listening"
          /\ s_metrics'.total_connections = 0
          /\ \A k \in Conns : h_pc'[k] = "none" /\ cst'[k] # "accepted"
     /\ (c_pc' # "start" /\ cst'[CConn] = "none") =>
          /\ c_pc' = "exit1"
          /\ c_metrics' = ClientMetrics0
          /\ c_obs' = Obs0
          /\ c_loc' = Locals0
          /\ c2s'[CConn] = 0
     /\ c_pc = "exit1" => c_pc' = "exit1"]_vars

\* the server's bind has failed and the client's connect, made after it, too
BothStartsFailed ==
  /\ s_pc = "display"
  /\ s_metrics.start_time = None
  /\ server_socket = "closed"
  /\ c_pc = "exit1"

SendTimesInWindow ==
  Len(c_saved) > 0 =>
    LET final == c_saved[1]
    IN  \A i \in 1..Len(final.send_times) :
          /\ final.start_time # None /\ final.end_time # None
          /\ final.start_time <= final.send_times[i]
          /\ final.send_times[i] <= final.end_time

====
